---- MODULE Spec2Model ----
(***************************************************************************)
(* docker-housekeeper: the backup pipeline (BackupService.Backup and the   *)
(* writer stack sink <- age <- zip/bufio <- gzip/tar producers) and the    *)
(* cron scheduling of BackupService (StartSchedule / StopSchedule).         *)
(*                                                                         *)
(* Spec      one Backup() invocation, step by step, against every          *)
(*           configuration, with the remote upload task running beside it. *)
(* SpecSched the process lifecycle of main(): StartSchedule, scheduled     *)
(*           runs, interrupt, StopSchedule(timeout).                       *)
(* SpecApi   arbitrary sequences of StartSchedule / StopSchedule calls.    *)
(* SpecInit  PostgresConnection.Init() called repeatedly against one       *)
(*           server.                                                       *)
(***************************************************************************)
EXTENDS Integers, Sequences, FiniteSets, TLC

\* ------------------------------------------------------------------ bounds
\* number of configured data directories is 0..MaxDirs
MaxDirs == 2
\* number of paths the walk of one directory meets below its root is 0..MaxFiles
MaxFiles == 2
\* the clock runs from 0 to MaxTime, and to ApiMaxTime when calls come in any order
MaxTime == 5
ApiMaxTime == 3
\* ticks between two activations of the cron schedule
Interval == 2
\* the timeout handed to StopSchedule, in ticks
Timeout == 2
\* calls of StartSchedule and of StopSchedule in SpecApi
MaxStarts == 2
MaxStops == 2

VARIABLES
    s,          \* BackupService as seen by Backup(): Config.Database, Database != nil,
                \* number of Config.DataDirectories, len(ageRecipients()) > 0, RClone != nil
    pc,         \* position of Backup()
    ret,        \* value of the return statement Backup() executed: "none", "ok", "err"
    retAt,      \* the stage whose return statement was executed
    defers,     \* deferred calls of Backup(), in registration order
    closeLog,   \* the deferred closes in the order they were invoked
    fileState,  \* sink handle: "none", "open", "closed" (os.File or pipe write end)
    ageState,   \* encryption stage: "none" (pass-through), "open", "closed"
    encClosed,  \* encryptClose() has been invoked
    stream,     \* zip.Writer with its bufio buffer, the age chunk buffer, the bytes in the sink
    upload,     \* background task of createFile: "none", "running", "finished"
    putErr,     \* RClone.Put returned an error
    meta,       \* BackupMeta being filled
    manifest,   \* what yaml Encode serialised, or "none"
    unfinalised, \* entries recorded in meta although the finalisation of their streams failed
    filename,   \* name of the archive: the time stamp in it and its suffix
    failures,   \* entries whose producer (pg_dump, the walk of tarDir) reported an error
    dirIdx,     \* loop index of backupDirectories
    \* ---- scheduler
    now,        \* clock, in ticks
    schedule,   \* s.Config.Schedule: "" (empty), "valid", "invalid" (does not parse)
    crons,      \* every cron.Cron created so far: running, hasEntry, next
    svcCron,    \* s.Cron: index into crons, 0 = nil
    runs,       \* Backup() invocations started by cron jobs: cron, state, at, end
    mainPc,     \* position of the caller: "none", "start", "waitSignal", "stopping",
                \* "exit", "fatal", or "api" when calls come in any order
    stopPc,     \* position of StopSchedule: "idle", "waiting", "returned"
    stopVia,    \* select case StopSchedule returned through
    stopCron,   \* the cron StopSchedule stopped
    stopDeadline, \* when time.After(timeout) fires
    stopAt,     \* clock when StopSchedule returned
    stopLeft,   \* runs still in flight when StopSchedule returned
    stopRuns,   \* number of runs started when StopSchedule was called
    stopCalls,  \* number of StopSchedule calls so far
    \* ---- database initialisation
    dbConf,     \* DatabaseConfig: RootPassword != "", PgExtensions != ""
    catalog,    \* the PostgreSQL server: the role, the database, the extension exist
    initPc,     \* position of Init()
    initLog,    \* what the Init() calls so far returned, in call order
    \* ---- process start-up
    hk,         \* Housekeeper: db != nil, running (atomic.Bool), the probe server, the
                \* position and result of Prepare(), the steps of it that succeeded,
                \* the answer to the last probe
    proc        \* the process of main(): the action argument, Database.Host != "",
                \* the work done so far, what the manual Backup() returned

pipeVars == <<s, pc, ret, retAt, defers, closeLog, fileState, ageState, encClosed,
              stream, upload, putErr, meta, manifest, unfinalised, failures, filename, dirIdx>>
schedVars == <<now, schedule, crons, svcCron, runs, mainPc, stopPc, stopVia, stopCron,
               stopDeadline, stopAt, stopLeft, stopRuns, stopCalls>>
hkVars == <<dbConf, catalog, initPc, initLog, hk, proc>>
vars == <<pipeVars, schedVars, hkVars>>

\* ------------------------------------------------------------ entry names
DatabaseEntry == "database.sql.gz"
ManifestEntry == "backup.yml"
\* fmt.Sprintf("data_%d.tar.gz", idx), for idx = 0, 1, 2, ...
DirNames == <<"data_0.tar.gz", "data_1.tar.gz", "data_2.tar.gz", "data_3.tar.gz">>
\* one name for every directory
DirEntry_SameName(idx) == DirNames[1]

DirEntry(idx) == DirNames[idx + 1]

\* a service that counts as enabled whatever is configured
IsBackupEnabled_Always == TRUE

\* IsBackupEnabled
IsBackupEnabled == s.Database \/ s.DataDirectories > 0

\* ageRecipients() is non-empty
Encrypted == s.recipients

\* s.RClone != nil
Remote == s.RClone

\* an archive name that never carries the encryption suffix
ArchiveSuffix_Plain == ".zip"

\* "backup_<time>.zip.age" with recipients, "backup_<time>.zip" without
ArchiveSuffix == IF Encrypted THEN ".zip.age" ELSE ".zip"

\* ---------------------------------------------------------- writer stack
\* An outcome of a write: the stream afterwards and whether the call returned nil.
Ok(w) == [w |-> w, ok |-> TRUE]
Fail(w) == [w |-> w, ok |-> FALSE]

\* Write of recs to the sink: os.File.Write, or PipeWriter.Write met by the Put's reads.
\* A local write can fail having written any proper prefix; a pipe write fails once the
\* read end is closed (CloseWithError / Close) or the write end is closed.
SinkWrite(w, recs) ==
    IF fileState # "open" THEN {Fail(w)}
    ELSE IF Remote
         THEN IF upload = "running"
              THEN {Ok([w EXCEPT !.sink = @ \o recs])}
              ELSE {Fail(w)}
         ELSE {Ok([w EXCEPT !.sink = @ \o recs])}
              \cup { Fail([w EXCEPT !.sink = @ \o SubSeq(recs, 1, k)]) : k \in 0..(Len(recs) - 1) }

\* stream.Writer.Write of age: sticky error; buffers a chunk, or flushes chunks to the sink
AgeWrite(w, recs) ==
    IF w.ageErr THEN {Fail(w)}
    ELSE {Ok([w EXCEPT !.ageBuf = @ \o recs])}
         \cup { IF o.ok THEN o ELSE Fail([o.w EXCEPT !.ageErr = TRUE, !.ageBuf = <<>>])
                : o \in SinkWrite([w EXCEPT !.ageBuf = <<>>], w.ageBuf \o recs) }

\* what zip's bufio.Writer writes into: the age writer, or the sink itself
Down(w, recs) ==
    LET v == [w EXCEPT !.lateWrite = @ \/ encClosed]
    IN  IF Encrypted THEN AgeWrite(v, recs) ELSE SinkWrite(v, recs)

\* a failed write leaves bufio with its error; what it still buffers is never written
BufFail(o) == IF o.ok THEN o ELSE Fail([o.w EXCEPT !.zipErr = TRUE, !.zipBuf = <<>>])

\* bufio.Writer.Write inside zip.Writer: sticky error; the record stays in the buffer,
\* or the buffer is flushed before it, or together with it
BufWrite(w, rec) ==
    IF w.zipErr THEN {Fail(w)}
    ELSE {Ok([w EXCEPT !.zipBuf = @ \o <<rec>>])}
         \cup { BufFail(o) : o \in Down([w EXCEPT !.zipBuf = <<>>], w.zipBuf \o <<rec>>) }
         \cup (IF w.zipBuf = <<>> THEN {}
               ELSE { BufFail(o) : o \in Down([w EXCEPT !.zipBuf = <<rec>>], w.zipBuf) })

\* bufio.Writer.Flush
BufFlush(w) ==
    IF w.zipErr THEN {Fail(w)}
    ELSE IF w.zipBuf = <<>> THEN {Ok(w)}
    ELSE { BufFail(o) : o \in Down([w EXCEPT !.zipBuf = <<>>], w.zipBuf) }

\* zip.Writer.prepare: close the last entry (writes its data descriptor)
ZipCloseLast(w) ==
    IF w.zipLast # "" /\ ~w.zipLastClosed
    THEN BufWrite([w EXCEPT !.zipLastClosed = TRUE], <<"dd", w.zipLast>>)
    ELSE {Ok(w)}

\* zip.Writer.CreateHeader: the header joins w.dir before it is written
ZipCreateHeader(w, name) ==
    UNION { IF p.ok
            THEN { IF o.ok THEN Ok([o.w EXCEPT !.zipLast = name, !.zipLastClosed = FALSE])
                   ELSE o
                   : o \in BufWrite([p.w EXCEPT !.zipDir = Append(@, name)], <<"hdr", name>>) }
            ELSE {p}
            : p \in ZipCloseLast(w) }

\* fileWriter.Write of the open entry
ZipEntryWrite(w, rec) == BufWrite(w, rec)

\* zip.Writer.Close: close the last entry, write the central directory, flush
ZipClose(w) ==
    UNION { IF p.ok
            THEN UNION { IF o.ok THEN BufFlush(o.w) ELSE {o}
                         : o \in BufWrite([p.w EXCEPT !.zipClosed = TRUE], <<"cd", "">>) }
            ELSE {p}
            : p \in ZipCloseLast(w) }

\* stream.Writer.Close of age: flush the last chunk
AgeClose(w) ==
    IF w.ageErr THEN {Fail(w)}
    ELSE { IF o.ok THEN Ok([o.w EXCEPT !.ageErr = TRUE]) ELSE Fail([o.w EXCEPT !.ageErr = TRUE])
           : o \in SinkWrite([w EXCEPT !.ageBuf = <<>>], w.ageBuf \o << <<"age", "final">> >>) }

EmptyStream ==
    [zipBuf |-> <<>>, zipErr |-> FALSE, zipDir |-> <<>>, zipLast |-> "",
     zipLastClosed |-> FALSE, zipClosed |-> FALSE,
     ageBuf |-> <<>>, ageErr |-> FALSE, sink |-> <<>>, lateWrite |-> FALSE]

\* ------------------------------------------------------------- producers
\* What the walk of tarDir meets, per visited path: a regular file read in full, a regular
\* file that shrank or grew after Lstat, one that cannot be opened, a directory or
\* symlink (header only), a path the walk reports with an error.
FileKinds == {"regular", "shrunk", "grown", "unreadable", "other", "walkErr"}

\* filepath.Walk visits the root first (a directory, or an error when it is missing),
\* then up to MaxFiles paths below it
Walks ==
    UNION { { <<root>> \o below : root \in {"other", "walkErr"}, below \in [1..n -> FileKinds] }
            : n \in 0..MaxFiles }

\* The walk callback of tarDir over files[i..]: err is what Walk returns, pending says
\* that the tar writer still misses bytes of its current file (header.Size not reached).
\* tar.Writer.WriteHeader flushes first and fails while bytes are missing.
RECURSIVE TarWalk(_, _, _)
TarWalk(files, i, pending) ==
    IF i > Len(files) THEN [err |-> FALSE, pending |-> pending]
    ELSE IF files[i] = "walkErr" THEN [err |-> TRUE, pending |-> pending]
    ELSE IF pending THEN [err |-> TRUE, pending |-> TRUE]
    ELSE IF files[i] = "regular" THEN TarWalk(files, i + 1, FALSE)
    ELSE IF files[i] = "other" THEN TarWalk(files, i + 1, FALSE)
    ELSE IF files[i] = "shrunk" THEN TarWalk(files, i + 1, TRUE)
    ELSE IF files[i] = "grown" THEN [err |-> TRUE, pending |-> FALSE]
    ELSE [err |-> TRUE, pending |-> TRUE]

\* what the walk callback leaves behind, over every walk
WalkResults == { TarWalk(files, 1, FALSE) : files \in Walks }

\* a tarDir that drops what the walk returns
TarDir_WalkErrorIgnored(w, name, walk, surfaced) ==
        { LET err == ~o.ok /\ surfaced
          IN  [w |-> o.w, err |-> err, finalised |-> ~err /\ ~walk.pending /\ o.ok]
          : o \in BufWrite(w, <<"data", name>>) }

\* tarDir(writer, dir): the walk (its result is walk), then the deferred tarWriter.Close() and
\* gzipWriter.Close(), whose errors are dropped. The compressed stream reaches the zip
\* entry through gzip; a failing write is met either during the walk (surfaced: the walk
\* returns it) or by the deferred closes (dropped). Result: the stream, err (what tarDir
\* returns) and finalised (tar trailer and gzip trailer both written).
TarDir(w, name, walk, surfaced) ==
        { LET err == walk.err \/ (~o.ok /\ surfaced)
          IN  [w |-> o.w, err |-> err, finalised |-> ~err /\ ~walk.pending /\ o.ok]
          : o \in ZipEntryWrite(w, <<"data", name>>) }

\* a dump whose exit status is dropped
DumpDatabase_ExitIgnored(w, pgOk, surfaced) ==
    { LET err == ~o.ok /\ surfaced
      IN  [w |-> o.w, err |-> err, finalised |-> ~err /\ o.ok]
      : o \in BufWrite(w, <<"data", DatabaseEntry>>) }

\* s.Database.Backup(gzipWriter) followed by gzipWriter.Close(), whose error is dropped.
\* pgOk: pg_dump ran and exited 0. A failing write is met either while pg_dump's output
\* is copied (surfaced: cmd.Run returns it) or by gzipWriter.Close() (dropped).
DumpDatabase(w, pgOk, surfaced) ==
    { LET err == ~pgOk \/ (~o.ok /\ surfaced)
      IN  [w |-> o.w, err |-> err, finalised |-> ~err /\ o.ok]
      : o \in ZipEntryWrite(w, <<"data", DatabaseEntry>>) }

\* ------------------------------------------------------------ Backup()
\* a deferred call queued to run first-in, first-out
PushDefer_Fifo(stack, f) == <<f>> \o stack

\* a close that is never scheduled to run
PushDefer_Dropped(stack, f) == stack

\* defer f: registered last, run first
PushDefer(stack, f) == Append(stack, f)
NextDeferred(stack) == stack[Len(stack)]
PopDeferred(stack) == SubSeq(stack, 1, Len(stack) - 1)

\* the manifest written before the directories are captured
StageOrder_ManifestBeforeDirs == <<"database", "manifest", "directories">>

\* the manifest written first
StageOrder_ManifestFirst == <<"manifest", "database", "directories">>

\* the directories captured before the database
StageOrder_DirsFirst == <<"directories", "database", "manifest">>

\* the stages of Backup() after the writers are set up, in statement order
StageOrder == <<"database", "directories", "manifest">>

StageIndex(st) == CHOOSE i \in 1..Len(StageOrder) : StageOrder[i] = st

FirstStage == StageOrder[1]

AfterStage(st) ==
    IF StageIndex(st) < Len(StageOrder) THEN StageOrder[StageIndex(st) + 1] ELSE "finish"

\* a return statement of Backup(): the value is fixed, then the deferred calls run
Return(val, at) ==
    /\ ret' = val
    /\ retAt' = at
    /\ pc' = "defers"

\* a close function that does not wait for the background task
WaitDone_NoWait == TRUE

\* a background task whose wg.Done() is never reached
WaitDone_Never == FALSE

\* wg.Wait() returns once the background task called wg.Done()
WaitDone == upload = "finished"

Services ==
    [Database : BOOLEAN, DatabaseConn : BOOLEAN, DataDirectories : 0..MaxDirs,
     recipients : BOOLEAN, RClone : BOOLEAN]

EmptyMeta == [DatabaseBackup |-> "", Directories |-> <<>>]

\* a database stage that leaves the manifest field alone
SetDatabaseBackup_Unset(m) == m

\* meta.DatabaseBackup = "database.sql.gz"
SetDatabaseBackup(m) == [m EXCEPT !.DatabaseBackup = DatabaseEntry]

InitPipe ==
    /\ s \in Services
    /\ pc = "idle"
    /\ ret = "none"
    /\ retAt = "none"
    /\ defers = <<>>
    /\ closeLog = <<>>
    /\ fileState = "none"
    /\ ageState = "none"
    /\ encClosed = FALSE
    /\ stream = EmptyStream
    /\ upload = "none"
    /\ putErr = FALSE
    /\ meta = EmptyMeta
    /\ manifest = [written |-> FALSE, meta |-> EmptyMeta]
    /\ unfinalised = {}
    /\ failures = {}
    /\ filename = [stamp |-> -1, suffix |-> ""]
    /\ dirIdx = 0

InitSchedIdle ==
    /\ now = 0
    /\ schedule = ""
    /\ crons = <<>>
    /\ svcCron = 0
    /\ runs = <<>>
    /\ mainPc = "none"
    /\ stopPc = "idle"
    /\ stopVia = "none"
    /\ stopCron = 0
    /\ stopDeadline = 0
    /\ stopAt = 0
    /\ stopLeft = {}
    /\ stopRuns = 0
    /\ stopCalls = 0

\* a Housekeeper whose Prepare() was not called
NewHousekeeper(db) ==
    [db |-> db, running |-> FALSE, server |-> "none", pc |-> "idle", ret |-> "none",
     done |-> {}, probe |-> "none"]

\* a process that has done nothing yet
NewProcess(action, dbHost) ==
    [action |-> action, dbHost |-> dbHost, work |-> <<>>, prepared |-> FALSE,
     backupRet |-> "none"]

\* Init() is not running and was never called
InitHkIdle ==
    /\ hk = NewHousekeeper(FALSE)
    /\ proc = NewProcess("", FALSE)
    /\ dbConf = [RootPassword |-> FALSE, PgExtensions |-> FALSE]
    /\ catalog = [role |-> FALSE, database |-> FALSE, granted |-> FALSE, extension |-> FALSE]
    /\ initPc = "idle"
    /\ initLog = <<>>

\* Backup(): nothing to back up, or go on to open the file
BackupStart ==
    /\ pc = "idle"
    /\ IF ~IsBackupEnabled
       THEN Return("ok", "disabled") /\ UNCHANGED filename
       ELSE /\ filename' = [stamp |-> now, suffix |-> ArchiveSuffix]
            /\ pc' = "createFile"
            /\ UNCHANGED <<ret, retAt>>
    /\ UNCHANGED <<s, defers, closeLog, fileState, ageState, encClosed, stream, upload,
                   putErr, meta, manifest, unfinalised, failures, dirIdx, schedVars, hkVars>>

\* createFile: os.Create, or the pipe and the background task; then defer fileClose()
CreateFile ==
    /\ pc = "createFile"
    /\ IF Remote
       THEN /\ upload' = "running"
            /\ fileState' = "open"
            /\ defers' = PushDefer(defers, "fileClose")
            /\ pc' = "encryptFile"
            /\ UNCHANGED <<ret, retAt>>
       ELSE \E created \in BOOLEAN :
              IF created
              THEN /\ fileState' = "open"
                   /\ defers' = PushDefer(defers, "fileClose")
                   /\ pc' = "encryptFile"
                   /\ UNCHANGED <<ret, retAt, upload>>
              ELSE /\ Return("err", "createFile")
                   /\ UNCHANGED <<fileState, defers, upload>>
    /\ UNCHANGED <<s, closeLog, ageState, encClosed, stream, putErr, meta, manifest,
                   unfinalised, failures, filename, dirIdx, schedVars, hkVars>>

\* encryptFile (age.Encrypt writes the age header into the file), defer encryptClose(),
\* zip.NewWriter, defer zipWriter.Close(), meta := &BackupMeta{}
EncryptFile ==
    /\ pc = "encryptFile"
    /\ \E wrapped \in BOOLEAN :
         \E o \in (IF Encrypted /\ wrapped
                   THEN SinkWrite(stream, << <<"age", "hdr">> >>) ELSE {Ok(stream)}) :
           /\ stream' = o.w
           /\ IF Encrypted /\ ~(wrapped /\ o.ok)
              THEN /\ Return("err", "encryptFile")
                   /\ UNCHANGED <<defers, ageState>>
              ELSE /\ wrapped
                   /\ ageState' = IF Encrypted THEN "open" ELSE "none"
                   /\ defers' = PushDefer(PushDefer(defers, "encryptClose"), "zipClose")
                   /\ pc' = FirstStage
                   /\ UNCHANGED <<ret, retAt>>
    /\ UNCHANGED <<s, closeLog, fileState, encClosed, upload, putErr, meta, manifest,
                   unfinalised, failures, filename, dirIdx, schedVars, hkVars>>

\* backupDatabase: skipped, or CreateHeader("database.sql.gz")
DbHeader ==
    /\ pc = "database"
    /\ IF ~s.Database \/ ~s.DatabaseConn
       THEN /\ pc' = AfterStage("database")
            /\ UNCHANGED <<ret, retAt, stream>>
       ELSE \E o \in ZipCreateHeader(stream, DatabaseEntry) :
              /\ stream' = o.w
              /\ IF o.ok
                 THEN pc' = "dbDump" /\ UNCHANGED <<ret, retAt>>
                 ELSE Return("err", "database")
    /\ UNCHANGED <<s, defers, closeLog, fileState, ageState, encClosed, upload, putErr,
                   meta, manifest, unfinalised, failures, filename, dirIdx, schedVars, hkVars>>

\* backupDatabase: s.Database.Backup(gzipWriter); gzipWriter.Close(); meta.DatabaseBackup
DbDump ==
    /\ pc = "dbDump"
    /\ \E pgOk \in BOOLEAN, surfaced \in BOOLEAN :
         \E r \in DumpDatabase(stream, pgOk, surfaced) :
           /\ stream' = r.w
           /\ unfinalised' = IF r.err \/ r.finalised THEN unfinalised
                             ELSE unfinalised \cup {DatabaseEntry}
           /\ failures' = IF ~pgOk \/ r.err THEN failures \cup {DatabaseEntry} ELSE failures
           /\ IF r.err
              THEN Return("err", "database") /\ UNCHANGED meta
              ELSE /\ meta' = SetDatabaseBackup(meta)
                   /\ pc' = AfterStage("database")
                   /\ UNCHANGED <<ret, retAt>>
    /\ UNCHANGED <<s, defers, closeLog, fileState, ageState, encClosed, upload, putErr,
                   manifest, dirIdx, filename, schedVars, hkVars>>

ZeroDirectory == [DirectoryPath |-> -1, Filename |-> ""]

\* backupDirectories: skipped, or meta.Directories = make([]BackupMetaDirectory, n)
DirsEnter ==
    /\ pc = "directories"
    /\ IF s.DataDirectories = 0
       THEN pc' = AfterStage("directories") /\ UNCHANGED <<meta, dirIdx>>
       ELSE /\ meta' = [meta EXCEPT !.Directories = [i \in 1..s.DataDirectories |-> ZeroDirectory]]
            /\ dirIdx' = 0
            /\ pc' = "dirHeader"
    /\ UNCHANGED <<s, ret, retAt, defers, closeLog, fileState, ageState, encClosed, stream,
                   upload, putErr, manifest, unfinalised, failures, filename, schedVars, hkVars>>

\* backupDirectories: loop head and CreateHeader("data_<idx>.tar.gz")
DirHeader ==
    /\ pc = "dirHeader"
    /\ IF dirIdx >= s.DataDirectories
       THEN /\ pc' = AfterStage("directories")
            /\ UNCHANGED <<ret, retAt, stream>>
       ELSE \E o \in ZipCreateHeader(stream, DirEntry(dirIdx)) :
              /\ stream' = o.w
              /\ IF o.ok
                 THEN pc' = "dirTar" /\ UNCHANGED <<ret, retAt>>
                 ELSE Return("err", "directories")
    /\ UNCHANGED <<s, defers, closeLog, fileState, ageState, encClosed, upload, putErr,
                   meta, manifest, unfinalised, failures, filename, dirIdx, schedVars, hkVars>>

\* backupDirectories: tarDir(writer, dir); meta.Directories[idx] = {dir, filename}
DirTar ==
    /\ pc = "dirTar"
    /\ \E walk \in WalkResults, surfaced \in BOOLEAN :
         \E r \in TarDir(stream, DirEntry(dirIdx), walk, surfaced) :
           /\ stream' = r.w
           /\ unfinalised' = IF r.err \/ r.finalised THEN unfinalised
                             ELSE unfinalised \cup {DirEntry(dirIdx)}
           /\ failures' = IF walk.err \/ r.err THEN failures \cup {DirEntry(dirIdx)}
                          ELSE failures
           /\ IF r.err
              THEN Return("err", "directories") /\ UNCHANGED <<meta, dirIdx>>
              ELSE /\ meta' = [meta EXCEPT !.Directories[dirIdx + 1] =
                                 [DirectoryPath |-> dirIdx, Filename |-> DirEntry(dirIdx)]]
                   /\ dirIdx' = dirIdx + 1
                   /\ pc' = "dirHeader"
                   /\ UNCHANGED <<ret, retAt>>
    /\ UNCHANGED <<s, defers, closeLog, fileState, ageState, encClosed, upload, putErr,
                   manifest, filename, schedVars, hkVars>>

\* CreateHeader("backup.yml")
MetaHeader ==
    /\ pc = "manifest"
    /\ \E o \in ZipCreateHeader(stream, ManifestEntry) :
         /\ stream' = o.w
         /\ IF o.ok
            THEN pc' = "encode" /\ UNCHANGED <<ret, retAt>>
            ELSE Return("err", "manifestCreate")
    /\ UNCHANGED <<s, defers, closeLog, fileState, ageState, encClosed, upload, putErr,
                   meta, manifest, unfinalised, failures, filename, dirIdx, schedVars, hkVars>>

\* yaml.NewEncoder(writer).Encode(&meta)
MetaEncode ==
    /\ pc = "encode"
    /\ \E o \in ZipEntryWrite(stream, <<"data", ManifestEntry>>) :
         /\ stream' = o.w
         /\ IF o.ok
            THEN /\ manifest' = [written |-> TRUE, meta |-> meta]
                 /\ pc' = AfterStage("manifest")
                 /\ UNCHANGED <<ret, retAt>>
            ELSE Return("err", "manifestEncode") /\ UNCHANGED manifest
    /\ UNCHANGED <<s, defers, closeLog, fileState, ageState, encClosed, upload, putErr,
                   meta, unfinalised, failures, filename, dirIdx, schedVars, hkVars>>

\* log "backup finished"; return nil
BackupFinish ==
    /\ pc = "finish"
    /\ Return("ok", "finish")
    /\ UNCHANGED <<s, defers, closeLog, fileState, ageState, encClosed, stream, upload,
                   putErr, meta, manifest,
                   unfinalised, failures, filename, dirIdx, schedVars, hkVars>>

\* the next deferred call: zipWriter.Close(), encryptClose() or fileClose()
RunDefer ==
    /\ pc = "defers"
    /\ defers # <<>>
    /\ LET f == NextDeferred(defers)
       IN  /\ defers' = PopDeferred(defers)
           /\ closeLog' = Append(closeLog, f)
           /\ IF f = "zipClose"
              THEN /\ \E o \in ZipClose(stream) : stream' = o.w
                   /\ UNCHANGED <<pc, fileState, ageState, encClosed>>
              ELSE IF f = "encryptClose"
              THEN /\ encClosed' = TRUE
                   /\ IF ageState = "open"
                      THEN /\ \E o \in AgeClose(stream) : stream' = o.w
                           /\ ageState' = "closed"
                      ELSE UNCHANGED <<stream, ageState>>
                   /\ UNCHANGED <<pc, fileState>>
              ELSE /\ fileState' = "closed"
                   /\ pc' = IF Remote THEN "wgWait" ELSE "defers"
                   /\ UNCHANGED <<stream, ageState, encClosed>>
    /\ UNCHANGED <<s, ret, retAt, upload, putErr, meta, manifest,
                   unfinalised, failures, filename, dirIdx,
                   schedVars, hkVars>>

\* fileClose in remote mode: wg.Wait()
WgWait ==
    /\ pc = "wgWait"
    /\ WaitDone
    /\ pc' = "defers"
    /\ UNCHANGED <<s, ret, retAt, defers, closeLog, fileState, ageState, encClosed, stream,
                   upload, putErr, meta, manifest,
                   unfinalised, failures, filename, dirIdx, schedVars, hkVars>>

\* Backup() hands its return value to the caller
BackupReturn ==
    /\ pc = "defers"
    /\ defers = <<>>
    /\ pc' = "returned"
    /\ UNCHANGED <<s, ret, retAt, defers, closeLog, fileState, ageState, encClosed, stream,
                   upload, putErr, meta, manifest,
                   unfinalised, failures, filename, dirIdx, schedVars, hkVars>>

\* background task: s.RClone.Put returns (at any point of the stream, with or without an
\* error), reader.CloseWithError(err) / reader.Close(), wg.Done()
PutReturn ==
    /\ upload = "running"
    /\ \E failed \in BOOLEAN : putErr' = failed
    /\ upload' = "finished"
    /\ UNCHANGED <<s, pc, ret, retAt, defers, closeLog, fileState, ageState, encClosed,
                   stream, meta, manifest,
                   unfinalised, failures, filename, dirIdx, schedVars, hkVars>>

Init == InitPipe /\ InitSchedIdle /\ InitHkIdle

Next ==
    \/ BackupStart
    \/ CreateFile
    \/ EncryptFile
    \/ DbHeader
    \/ DbDump
    \/ DirsEnter
    \/ DirHeader
    \/ DirTar
    \/ MetaHeader
    \/ MetaEncode
    \/ BackupFinish
    \/ RunDefer
    \/ WgWait
    \/ BackupReturn
    \/ PutReturn

Spec == Init /\ [][Next]_vars

\* the steps of the goroutine that runs Backup()
BackupStep ==
    \/ BackupStart
    \/ CreateFile
    \/ EncryptFile
    \/ DbHeader
    \/ DbDump
    \/ DirsEnter
    \/ DirHeader
    \/ DirTar
    \/ MetaHeader
    \/ MetaEncode
    \/ BackupFinish
    \/ RunDefer
    \/ WgWait
    \/ BackupReturn

\* remote mode: s.RClone is set
InitRemote == Init /\ Remote

\* one Backup() run in remote mode. The Go scheduler runs both goroutines while they
\* can take a step, and RClone.Put is taken to return (PutReturn stays enabled until
\* it does).
SpecRemote == InitRemote /\ [][Next]_vars /\ WF_vars(BackupStep) /\ WF_vars(PutReturn)

\* --------------------------------------------------------------- scheduler
\* services the scheduler is run with; the job body is Backup() as a whole
SchedServices ==
    { sv \in Services : ~sv.RClone /\ ~sv.recipients /\ sv.DatabaseConn = sv.Database
                        /\ sv.DataDirectories <= 1 }

Running(c) == { i \in DOMAIN runs : runs[i].cron = c /\ runs[i].state = "running" }

\* jobWaiter of cron c: the jobs started and not yet returned
JobWaiter(c) == Cardinality(Running(c))

\* a scheduler that registers its entry whatever is configured
NewCron_AlwaysEntry(withEntry) == [running |-> TRUE, hasEntry |-> TRUE, next |-> now + Interval]

\* cron.New(); Start(); and, when enabled, AddFunc(schedule, job): the entry's first
\* activation is one interval from now
NewCron(withEntry) == [running |-> TRUE, hasEntry |-> withEntry, next |-> now + Interval]

\* a Stop that leaves the scheduler loop running
CronStop_KeepsRunning(cs, c) == cs

\* Cron.Stop(): the run loop takes the stop request and returns
CronStop(cs, c) == [cs EXCEPT ![c].running = FALSE]

\* the run loop of cron c finds its entry due
Due(c) == crons[c].running /\ crons[c].hasEntry /\ crons[c].next <= now

\* a select that only waits for the timer
SelectCases_TimerOnly == {"timeout"}

\* the cases of the select in StopSchedule
SelectCases == {"done", "timeout"}

\* <-ctx.Done(): every job of the stopped cron has returned; <-time.After(timeout)
CaseReady(c) ==
    IF c = "done" THEN JobWaiter(stopCron) = 0 ELSE now >= stopDeadline

StopReady == \E c \in SelectCases : CaseReady(c)

\* StartSchedule: returns an error iff the schedule does not parse
StartSchedule ==
    /\ crons' = Append(crons, NewCron(IsBackupEnabled /\ schedule = "valid"))
    /\ svcCron' = Len(crons) + 1

StartScheduleFails == IsBackupEnabled /\ schedule = "invalid"

\* the caller of main(): backup.StartSchedule(), log.Fatal on error
MainStart ==
    /\ mainPc = "start"
    /\ StartSchedule
    /\ mainPc' = IF StartScheduleFails THEN "fatal" ELSE "waitSignal"
    /\ UNCHANGED <<now, schedule, runs, stopPc, stopVia, stopCron, stopDeadline, stopAt,
                   stopLeft, stopRuns, stopCalls, pipeVars, hkVars>>

\* main(): <-c, the interrupt signal arrives
Interrupt ==
    /\ mainPc = "waitSignal"
    /\ mainPc' = "stopping"
    /\ UNCHANGED <<now, schedule, crons, svcCron, runs, stopPc, stopVia, stopCron,
                   stopDeadline, stopAt, stopLeft, stopRuns, stopCalls, pipeVars, hkVars>>

\* StopSchedule(timeout) up to the select: nothing to do when s.Cron is nil
StopCall ==
    /\ stopCalls' = stopCalls + 1
    /\ stopRuns' = Len(runs)
    /\ stopCron' = svcCron
    /\ stopDeadline' = now + Timeout
    /\ stopVia' = "none"
    /\ stopLeft' = {}
    /\ IF svcCron = 0
       THEN stopPc' = "returned" /\ stopAt' = now /\ UNCHANGED crons
       ELSE stopPc' = "waiting" /\ crons' = CronStop(crons, svcCron) /\ UNCHANGED stopAt

\* main(): backup.StopSchedule(time.Minute * 5)
MainStop ==
    /\ mainPc = "stopping"
    /\ stopPc = "idle"
    /\ StopCall
    /\ UNCHANGED <<now, schedule, svcCron, runs, mainPc, pipeVars, hkVars>>

\* StopSchedule: the select returns through a ready case
StopReturn ==
    /\ stopPc = "waiting"
    /\ \E c \in SelectCases :
         /\ CaseReady(c)
         /\ stopVia' = c
    /\ stopPc' = "returned"
    /\ stopAt' = now
    /\ stopLeft' = Running(stopCron)
    /\ mainPc' = IF mainPc = "stopping" THEN "exit" ELSE mainPc
    /\ UNCHANGED <<now, schedule, crons, svcCron, runs, stopCron, stopDeadline, stopRuns,
                   stopCalls, pipeVars, hkVars>>

\* run loop of a cron: the entry is due, startJob runs the job in a goroutine of its
\* own and the entry's next activation is computed
CronFire ==
    \E c \in DOMAIN crons :
      /\ Due(c)
      /\ runs' = Append(runs, [cron |-> c, state |-> "running", at |-> now, end |-> -1,
                               err |-> FALSE])
      /\ crons' = [crons EXCEPT ![c].next = now + Interval]
      /\ UNCHANGED <<now, schedule, svcCron, mainPc, stopPc, stopVia, stopCron,
                     stopDeadline, stopAt, stopLeft, stopRuns, stopCalls, pipeVars, hkVars>>

\* a job that takes its entry off the schedule when the run failed
OnJobError_RemovesEntry(cs, c) == [cs EXCEPT ![c].hasEntry = FALSE]

\* the job on err != nil: log.Printf("backup failed: ..."), nothing else
OnJobError(cs, c) == cs

\* the job: s.Backup() returns, its error is logged
JobReturn ==
    \E i \in DOMAIN runs, failed \in BOOLEAN :
      /\ runs[i].state = "running"
      /\ runs' = [runs EXCEPT ![i].state = "done", ![i].end = now, ![i].err = failed]
      /\ crons' = IF failed THEN OnJobError(crons, runs[i].cron) ELSE crons
      /\ UNCHANGED <<now, schedule, svcCron, mainPc, stopPc, stopVia, stopCron,
                     stopDeadline, stopAt, stopLeft, stopRuns, stopCalls, pipeVars, hkVars>>

\* time passes; timers that are due fire before it does
Tick ==
    /\ now < (IF mainPc = "api" THEN ApiMaxTime ELSE MaxTime)
    /\ \A c \in DOMAIN crons : ~Due(c)
    /\ ~(stopPc = "waiting" /\ StopReady)
    /\ now' = now + 1
    /\ UNCHANGED <<schedule, crons, svcCron, runs, mainPc, stopPc, stopVia, stopCron,
                   stopDeadline, stopAt, stopLeft, stopRuns, stopCalls, pipeVars, hkVars>>

InitSched ==
    /\ InitPipe
    /\ InitHkIdle
    /\ s \in SchedServices
    /\ now = 0
    /\ schedule \in {"", "valid", "invalid"}
    /\ crons = <<>>
    /\ svcCron = 0
    /\ runs = <<>>
    /\ mainPc = "start"
    /\ stopPc = "idle"
    /\ stopVia = "none"
    /\ stopCron = 0
    /\ stopDeadline = 0
    /\ stopAt = 0
    /\ stopLeft = {}
    /\ stopRuns = 0
    /\ stopCalls = 0

NextSched ==
    \/ MainStart
    \/ Interrupt
    \/ MainStop
    \/ StopReturn
    \/ CronFire
    \/ JobReturn
    \/ Tick

SpecSched == InitSched /\ [][NextSched]_vars

\* any caller: StartSchedule() at any time
ApiStart ==
    /\ mainPc = "api"
    /\ Len(crons) < MaxStarts
    /\ stopPc # "waiting"
    /\ StartSchedule
    /\ UNCHANGED <<now, schedule, runs, mainPc, stopPc, stopVia, stopCron, stopDeadline,
                   stopAt, stopLeft, stopRuns, stopCalls, pipeVars, hkVars>>

\* any caller: StopSchedule(timeout) at any time
ApiStop ==
    /\ mainPc = "api"
    /\ stopCalls < MaxStops
    /\ stopPc # "waiting"
    /\ StopCall
    /\ UNCHANGED <<now, schedule, svcCron, runs, mainPc, pipeVars, hkVars>>

InitApi ==
    /\ InitPipe
    /\ InitHkIdle
    /\ s \in SchedServices
    /\ now = 0
    /\ schedule \in {"", "valid"}
    /\ crons = <<>>
    /\ svcCron = 0
    /\ runs = <<>>
    /\ mainPc = "api"
    /\ stopPc = "idle"
    /\ stopVia = "none"
    /\ stopCron = 0
    /\ stopDeadline = 0
    /\ stopAt = 0
    /\ stopLeft = {}
    /\ stopRuns = 0
    /\ stopCalls = 0

NextApi ==
    \/ ApiStart
    \/ ApiStop
    \/ StopReturn
    \/ CronFire
    \/ JobReturn
    \/ Tick

SpecApi == InitApi /\ [][NextApi]_vars

\* ------------------------------------------------- PostgresConnection.Init
\* calls of Init() in one behaviour
MaxInits == 2

\* a statement's outcome: the catalog afterwards and whether Exec returned nil
SqlOk(cat) == [cat |-> cat, ok |-> TRUE]
SqlFail(cat) == [cat |-> cat, ok |-> FALSE]

\* CREATE ROLE <user> with LOGIN CREATEDB PASSWORD ...: fails when the role exists
CreateRole(cat) ==
    IF cat.role THEN SqlFail(cat) ELSE SqlOk([cat EXCEPT !.role = TRUE])

\* create database <db> OWNER <user>: fails when the database exists or the owner does not
CreateDatabase(cat) ==
    IF cat.database \/ ~cat.role THEN SqlFail(cat) ELSE SqlOk([cat EXCEPT !.database = TRUE])

\* GRANT ALL PRIVILEGES ON DATABASE <db> to <user>: repeating it is accepted
GrantAll(cat) ==
    IF cat.database /\ cat.role THEN SqlOk([cat EXCEPT !.granted = TRUE]) ELSE SqlFail(cat)

\* CREATE EXTENSION <ext>, without IF NOT EXISTS: fails when the extension exists
CreateExtension(cat) ==
    IF cat.extension THEN SqlFail(cat) ELSE SqlOk([cat EXCEPT !.extension = TRUE])

\* Init() returns
InitReturn(val) ==
    /\ initLog' = Append(initLog, val)
    /\ initPc' = "idle"

\* one statement of Init(): go on when it succeeded, return its error otherwise
InitExec(o, nextPc) ==
    /\ catalog' = o.cat
    /\ IF o.ok THEN initPc' = nextPc /\ UNCHANGED initLog ELSE InitReturn("err")

\* Init(): without a root password nothing is done
InitEnter ==
    /\ initPc = "idle"
    /\ Len(initLog) < MaxInits
    /\ IF ~dbConf.RootPassword
       THEN InitReturn("ok")
       ELSE initPc' = "user" /\ UNCHANGED initLog
    /\ UNCHANGED <<dbConf, catalog, hk, proc, pipeVars, schedVars>>

\* SELECT usename FROM pg_user; CREATE ROLE when there is no row
InitUser ==
    /\ initPc = "user"
    /\ InitExec(IF catalog.role THEN SqlOk(catalog) ELSE CreateRole(catalog), "database")
    /\ UNCHANGED <<dbConf, hk, proc, pipeVars, schedVars>>

\* SELECT datname FROM pg_database; create database when there is no row
InitDatabase ==
    /\ initPc = "database"
    /\ InitExec(IF catalog.database THEN SqlOk(catalog) ELSE CreateDatabase(catalog), "grant")
    /\ UNCHANGED <<dbConf, hk, proc, pipeVars, schedVars>>

\* GRANT ALL PRIVILEGES
InitGrant ==
    /\ initPc = "grant"
    /\ InitExec(GrantAll(catalog), "extensions")
    /\ UNCHANGED <<dbConf, hk, proc, pipeVars, schedVars>>

\* CREATE EXTENSION when PgExtensions is set; return nil
InitExtensions ==
    /\ initPc = "extensions"
    /\ LET o == IF dbConf.PgExtensions THEN CreateExtension(catalog) ELSE SqlOk(catalog)
       IN  /\ catalog' = o.cat
           /\ InitReturn(IF o.ok THEN "ok" ELSE "err")
    /\ UNCHANGED <<dbConf, hk, proc, pipeVars, schedVars>>

\* what the server can hold before the first Init(): an owner-less database cannot exist
Catalogs ==
    { c \in [role : BOOLEAN, database : BOOLEAN, granted : BOOLEAN, extension : BOOLEAN] :
        c.granted => (c.role /\ c.database) }

InitInit ==
    /\ InitPipe
    /\ hk = NewHousekeeper(FALSE)
    /\ proc = NewProcess("", FALSE)
    /\ s = [Database |-> FALSE, DatabaseConn |-> TRUE, DataDirectories |-> 0,
            recipients |-> FALSE, RClone |-> FALSE]
    /\ InitSchedIdle
    /\ dbConf \in [RootPassword : BOOLEAN, PgExtensions : BOOLEAN]
    /\ catalog \in Catalogs
    /\ initPc = "idle"
    /\ initLog = <<>>

NextInit ==
    \/ InitEnter
    \/ InitUser
    \/ InitDatabase
    \/ InitGrant
    \/ InitExtensions

SpecInit == InitInit /\ [][NextInit]_vars

\* ------------------------------------------------------ Housekeeper.Prepare
\* log.Fatal in the server goroutine ends the process, Prepare() with it
HkAlive == hk.server # "fatal"

\* http.StatusOK, http.StatusNoContent
StatusOK == 200
StatusNoContent == 204

\* a probe server that answers StatusOK whatever the flag says
ServeHTTP_AlwaysOk == StatusOK

\* ServeHTTP: StatusOK when running is set, StatusNoContent otherwise
ServeHTTP == IF hk.running THEN StatusOK ELSE StatusNoContent

\* Healthcheck(): the GET fails when nothing listens on the socket; any status but 200
\* is "housekeeper not ready"
Healthcheck ==
    IF hk.server # "serving" THEN "unreachable"
    ELSE IF ServeHTTP = StatusOK THEN "ready" ELSE "notReady"

\* Prepare() returns err
HkFail == [hk EXCEPT !.pc = "returned", !.ret = "err"]

\* Prepare(): h.StartHealthcheckServer() starts the goroutine and returns
HkStartServer ==
    /\ hk.pc = "idle"
    /\ hk' = [hk EXCEPT !.server = "starting", !.pc = IF hk.db THEN "wait" ELSE "backup"]
    /\ UNCHANGED <<dbConf, catalog, initPc, initLog, proc, pipeVars, schedVars>>

\* the server goroutine: net.Listen succeeds and http.Serve answers, or log.Fatalf
HkListen ==
    /\ hk.server = "starting"
    /\ \E ok \in BOOLEAN : hk' = [hk EXCEPT !.server = IF ok THEN "serving" ELSE "fatal"]
    /\ UNCHANGED <<dbConf, catalog, initPc, initLog, proc, pipeVars, schedVars>>

\* the server goroutine: http.Serve returns, log.Fatal
HkServeEnds ==
    /\ hk.server = "serving"
    /\ hk' = [hk EXCEPT !.server = "fatal"]
    /\ UNCHANGED <<dbConf, catalog, initPc, initLog, proc, pipeVars, schedVars>>

\* Prepare(): h.db.WaitForConnection(time.Minute)
HkWait ==
    /\ HkAlive
    /\ hk.pc = "wait"
    /\ \E ok \in BOOLEAN :
         hk' = IF ok THEN [hk EXCEPT !.pc = "init", !.done = @ \cup {"wait"}] ELSE HkFail
    /\ UNCHANGED <<dbConf, catalog, initPc, initLog, proc, pipeVars, schedVars>>

\* Prepare(): the steps of h.db.Init()
HkInit ==
    /\ HkAlive
    /\ hk.pc = "init"
    /\ initPc # "idle" \/ initLog = <<>>
    /\ NextInit

\* Prepare(): h.db.Init() returned
HkInitDone ==
    /\ HkAlive
    /\ hk.pc = "init"
    /\ initPc = "idle"
    /\ initLog # <<>>
    /\ hk' = IF initLog[Len(initLog)] = "ok"
             THEN [hk EXCEPT !.pc = "backup", !.done = @ \cup {"init"}]
             ELSE HkFail
    /\ UNCHANGED <<dbConf, catalog, initPc, initLog, proc, pipeVars, schedVars>>

\* Prepare(): h.backup.Prepare()
HkBackupPrepare ==
    /\ HkAlive
    /\ hk.pc = "backup"
    /\ \E ok \in BOOLEAN :
         hk' = IF ok THEN [hk EXCEPT !.pc = "store", !.done = @ \cup {"prepare"}] ELSE HkFail
    /\ UNCHANGED <<dbConf, catalog, initPc, initLog, proc, pipeVars, schedVars>>

\* Prepare(): h.running.Store(true); return nil
HkStore ==
    /\ HkAlive
    /\ hk.pc = "store"
    /\ hk' = [hk EXCEPT !.running = TRUE, !.pc = "returned", !.ret = "ok"]
    /\ UNCHANGED <<dbConf, catalog, initPc, initLog, proc, pipeVars, schedVars>>

\* another process asks: Healthcheck()
HkProbe ==
    /\ hk.pc # "idle"
    /\ hk' = [hk EXCEPT !.probe = Healthcheck]
    /\ UNCHANGED <<dbConf, catalog, initPc, initLog, proc, pipeVars, schedVars>>

InitHk ==
    /\ InitPipe
    /\ InitSchedIdle
    /\ s = [Database |-> FALSE, DatabaseConn |-> TRUE, DataDirectories |-> 0,
            recipients |-> FALSE, RClone |-> FALSE]
    /\ \E db \in BOOLEAN : hk = NewHousekeeper(db)
    /\ proc = NewProcess("", FALSE)
    /\ dbConf \in [RootPassword : BOOLEAN, PgExtensions : BOOLEAN]
    /\ catalog \in Catalogs
    /\ initPc = "idle"
    /\ initLog = <<>>

NextHk ==
    \/ HkStartServer
    \/ HkListen
    \/ HkServeEnds
    \/ HkWait
    \/ HkInit
    \/ HkInitDone
    \/ HkBackupPrepare
    \/ HkStore
    \/ HkProbe

SpecHk == InitHk /\ [][NextHk]_vars

\* ------------------------------------------------------------------- main()
\* what main() leaves alone before the schedule starts
mainFrame ==
    <<now, schedule, crons, svcCron, runs, stopPc, stopVia, stopCron, stopDeadline, stopAt,
      stopLeft, stopRuns, stopCalls, pipeVars, dbConf, catalog, initPc, initLog, hk>>

\* os.Args[1], lower-cased: none, "backup", anything else
Actions == {"", "backup", "other"}

\* validate(): a database backup needs a database host
ConfigValid == ~(s.Database /\ ~proc.dbHost)

\* a main() that goes on to the schedule after the manual backup
AfterManualBackup_FallsThrough == "start"

\* case "backup": return after Backup() returned nil
AfterManualBackup == "exit"

\* main(): LoadConfig(), log.Fatalf on error; then config.Database.Host != ""
MainLoadConfig ==
    /\ mainPc = "loadConfig"
    /\ \E ok \in (IF ConfigValid THEN BOOLEAN ELSE {FALSE}) :
         mainPc' = IF ~ok THEN "fatal" ELSE IF proc.dbHost THEN "waitDb" ELSE "prepare"
    /\ UNCHANGED <<proc, mainFrame>>

\* main(): pg.WaitForConnection(time.Minute), log.Fatal on error
MainWaitDb ==
    /\ mainPc = "waitDb"
    /\ proc' = [proc EXCEPT !.work = Append(@, "wait")]
    /\ \E ok \in BOOLEAN : mainPc' = IF ok THEN "initDb" ELSE "fatal"
    /\ UNCHANGED mainFrame

\* main(): the steps of pg.Init()
MainInit ==
    /\ mainPc = "initDb"
    /\ initPc # "idle" \/ initLog = <<>>
    /\ NextInit

\* main(): pg.Init() returned, log.Fatal on error
MainInitDone ==
    /\ mainPc = "initDb"
    /\ initPc = "idle"
    /\ initLog # <<>>
    /\ proc' = [proc EXCEPT !.work = Append(@, "init")]
    /\ mainPc' = IF initLog[Len(initLog)] = "ok" THEN "prepare" ELSE "fatal"
    /\ UNCHANGED mainFrame

\* main(): backup.Prepare() creates the storage directory, log.Fatal on error
MainPrepare ==
    /\ mainPc = "prepare"
    /\ \E ok \in BOOLEAN :
         /\ proc' = [proc EXCEPT !.work = Append(@, "prepare"), !.prepared = ok]
         /\ mainPc' = IF ok THEN "action" ELSE "fatal"
    /\ UNCHANGED mainFrame

\* main(): switch action
MainAction ==
    /\ mainPc = "action"
    /\ mainPc' = CASE proc.action = "" -> "start"
                   [] proc.action = "backup" -> "backup"
                   [] OTHER -> "fatal"
    /\ UNCHANGED <<proc, mainFrame>>

\* main(): backup.Backup() is called
MainBackupCall ==
    /\ mainPc = "backup"
    /\ proc.backupRet = "none"
    /\ proc' = [proc EXCEPT !.work = Append(@, "backup"), !.backupRet = "running"]
    /\ UNCHANGED <<mainPc, mainFrame>>

\* main(): backup.Backup() returns; log.Fatal on error, return otherwise
MainBackupReturn ==
    /\ mainPc = "backup"
    /\ proc.backupRet = "running"
    /\ \E failed \in (IF IsBackupEnabled THEN BOOLEAN ELSE {FALSE}) :
         /\ proc' = [proc EXCEPT !.backupRet = IF failed THEN "err" ELSE "ok"]
         /\ mainPc' = IF failed THEN "fatal" ELSE AfterManualBackup
    /\ UNCHANGED mainFrame

InitMain ==
    /\ InitPipe
    /\ s \in SchedServices
    /\ now = 0
    /\ schedule \in {"", "valid", "invalid"}
    /\ crons = <<>>
    /\ svcCron = 0
    /\ runs = <<>>
    /\ mainPc = "loadConfig"
    /\ stopPc = "idle"
    /\ stopVia = "none"
    /\ stopCron = 0
    /\ stopDeadline = 0
    /\ stopAt = 0
    /\ stopLeft = {}
    /\ stopRuns = 0
    /\ stopCalls = 0
    /\ hk = NewHousekeeper(FALSE)
    /\ \E a \in Actions, h \in BOOLEAN : proc = NewProcess(a, h)
    /\ dbConf \in [RootPassword : BOOLEAN, PgExtensions : BOOLEAN]
    /\ catalog \in Catalogs
    /\ initPc = "idle"
    /\ initLog = <<>>

NextMain ==
    \/ MainLoadConfig
    \/ MainWaitDb
    \/ MainInit
    \/ MainInitDone
    \/ MainPrepare
    \/ MainAction
    \/ MainBackupCall
    \/ MainBackupReturn
    \/ NextSched

SpecMain == InitMain /\ [][NextMain]_vars

\* ============================================================== properties
Range(f) == { f[i] : i \in DOMAIN f }

Returned == pc = "returned"

\* the names the bytes in the sink carry a local file header for
ArchiveEntries == { r[2] : r \in { x \in Range(stream.sink) : x[1] = "hdr" } }

ArchiveHasManifest == ManifestEntry \in ArchiveEntries

AllCloses == <<"zipClose", "encryptClose", "fileClose">>

IsPrefix(a, b) == Len(a) <= Len(b) /\ a = SubSeq(b, 1, Len(a))

\* C1: in remote mode, a run whose remote put failed does not return success.
C1_FailedUploadNotSuccess ==
    (Returned /\ Remote /\ putErr) => ret # "ok"

\* C3 as stated: every run that returns an error leaves an archive without a manifest
\* entry, whatever the stage that failed.
C3_ErrorLeavesNoManifest ==
    (Returned /\ ret = "err") => ~ArchiveHasManifest

\* the central directory of the container reached the sink
ArchiveHasDirectory == \E r \in Range(stream.sink) : r[1] = "cd"

\* C3 amended: every run that returns an error from a stage before the manifest is
\* serialised (sink or encryption set-up, database, directories, creation of the manifest
\* entry) leaves an archive without a manifest entry; a run that fails while the manifest
\* is created or serialised never gets its central directory into the archive.
C3_ErrorBeforeEncodeLeavesNoManifest ==
    /\ (ret = "err" /\ retAt # "manifestEncode") => ~ArchiveHasManifest
    /\ (ret = "err" /\ retAt \in {"manifestCreate", "manifestEncode"}) => ~ArchiveHasDirectory

C3_Witness ==
    /\ Returned /\ ret = "err" /\ retAt = "manifestCreate"
    /\ DirEntry(0) \in ArchiveEntries

\* C4: once the container writer was opened, the closes run in the order container
\* writer, encryption stage, sink, on the success path and on every error path, and
\* nothing is written into the encryption stage after it was closed.
C4_CloseOrder ==
    /\ "zipClose" \in Range(defers) \cup Range(closeLog) =>
          /\ IsPrefix(closeLog, AllCloses)
          /\ Returned => closeLog = AllCloses
    /\ ~stream.lateWrite
    /\ fileState = "closed" => (Range(defers) = {} /\ closeLog[Len(closeLog)] = "fileClose")

C4_Witness ==
    /\ Returned /\ ret = "err" /\ retAt = "directories"
    /\ closeLog = AllCloses /\ ageState = "closed"
    /\ <<"age", "final">> \in Range(stream.sink)

\* C5: in a successful run that opened a container, the manifest entry is created
\* exactly once and no entry is created after it.
C5_ManifestOnceAndLast ==
    (Returned /\ ret = "ok" /\ IsBackupEnabled) =>
        /\ stream.zipDir # <<>>
        /\ stream.zipDir[Len(stream.zipDir)] = ManifestEntry
        /\ Cardinality({ i \in DOMAIN stream.zipDir : stream.zipDir[i] = ManifestEntry }) = 1

C5_Witness ==
    /\ Returned /\ ret = "ok"
    /\ stream.zipDir = <<DatabaseEntry, DirEntry(0), DirEntry(1), ManifestEntry>>

\* C6: in remote mode the close function has closed the write end and has waited for
\* the background task when it returns, so no task is running when Backup() returns.
C6_CloseWaitsForUpload ==
    /\ (Remote /\ "fileClose" \in Range(closeLog) /\ pc # "wgWait") =>
          (fileState = "closed" /\ upload = "finished")
    /\ Returned => upload \in {"none", "finished"}

C6_Witness ==
    /\ Returned /\ Remote /\ upload = "finished" /\ ~putErr
    /\ "fileClose" \in Range(closeLog) /\ ret = "ok"

\* the entry names the serialised manifest lists
ManifestListed ==
    (IF manifest.meta.DatabaseBackup = "" THEN {} ELSE {manifest.meta.DatabaseBackup})
    \cup { d.Filename : d \in Range(manifest.meta.Directories) }

\* C10: whenever the manifest is written, every entry it lists is complete: the producer
\* succeeded and its tar and gzip streams were finalised.
C10_ManifestListsCompleteEntries ==
    manifest.written => ManifestListed \cap unfinalised = {}

InFlight == { i \in DOMAIN runs : runs[i].state = "running" }

\* C2: runs started by the schedule never overlap: at most one is in progress.
C2_RunsNeverOverlap == Cardinality(InFlight) <= 1

Max(S) == CHOOSE x \in S : \A y \in S : y <= x
Min(S) == CHOOSE x \in S : \A y \in S : x <= y

\* when the last job of the stopped cron returned, or the call time if none was running
StopDoneTime ==
    Max({stopDeadline - Timeout}
        \cup { runs[i].end : i \in { j \in DOMAIN runs : runs[j].cron = stopCron
                                                         /\ runs[j].state = "done" } })

\* C7: StopSchedule(timeout) returns when the in-flight runs have finished or when the
\* timeout elapses, whichever is first; on timeout the runs still in flight are left
\* running, and no step of StopSchedule changes a run.
C7_StopWaitsBounded ==
    /\ [](stopPc = "returned" /\ stopCron # 0 =>
            /\ stopAt = (IF stopLeft = {} THEN Min({stopDeadline, StopDoneTime})
                         ELSE stopDeadline)
            /\ stopLeft # {} => stopVia = "timeout"
            /\ stopVia = "done" => stopLeft = {}
            /\ \A i \in stopLeft : runs[i].state = "running" \/ runs[i].end >= stopAt)
    /\ [][stopPc' # stopPc => runs' = runs]_vars

C7_Witness ==
    /\ stopPc = "returned" /\ stopVia = "timeout" /\ stopLeft # {}
    /\ \E i \in stopLeft : runs[i].state = "done" /\ runs[i].end > stopAt

\* C8: after StopSchedule has been called no new scheduled run starts, also after it
\* returned through its timeout.
C8_NoRunAfterStop == stopPc # "idle" => Len(runs) = stopRuns

C8_Witness ==
    /\ stopPc = "returned" /\ stopVia = "timeout" /\ Len(runs) > 0
    /\ crons[stopCron].hasEntry /\ crons[stopCron].next <= now

\* C9: at most one schedule entry that triggers Backup() exists at any time.
C9_AtMostOneEntry ==
    Cardinality({ c \in DOMAIN crons : crons[c].running /\ crons[c].hasEntry }) <= 1

\* the archive in the sink is whole: the central directory was written, nothing is
\* left in a buffer, no writer holds an error, and the encryption stream was finalised
ArchiveComplete ==
    /\ ArchiveHasDirectory
    /\ stream.zipBuf = <<>> /\ stream.ageBuf = <<>>
    /\ ~stream.zipErr
    /\ Encrypted => <<"age", "final">> \in Range(stream.sink)

\* C11: a container write failure, sink write failure or encryption failure during a
\* run, also one met while the writers are closed, makes Backup() return an error;
\* success is returned only when the complete archive was written and finalised.
C11_SuccessMeansCompleteArchive ==
    (Returned /\ IsBackupEnabled /\ ret = "ok") => ArchiveComplete

\* Backup() has executed a return statement: only deferred closes are left
Returning == pc \in {"defers", "wgWait", "returned"}

\* whether backupDatabase creates the database entry
DatabaseProcessed == s.Database /\ s.DatabaseConn

\* the entries a run creates when nothing fails, in order
ExpectedEntries ==
    (IF DatabaseProcessed THEN <<DatabaseEntry>> ELSE <<>>)
    \o [i \in 1..s.DataDirectories |-> DirEntry(i - 1)]
    \o <<ManifestEntry>>

\* the entry names of the local file headers in the sink, in stream order
SinkHeaders ==
    LET hs == SelectSeq(stream.sink, LAMBDA r : r[1] = "hdr")
    IN  [i \in 1..Len(hs) |-> hs[i][2]]

\* what holds of a run that returned from the capture of directory i
DirFailureAt(i) ==
    /\ ret = "err" /\ retAt = "directories" /\ Returning
    /\ dirIdx = i
    /\ ~manifest.written
    /\ ManifestEntry \notin Range(stream.zipDir)
    /\ \A j \in (i + 1)..(MaxDirs - 1) : DirEntry(j) \notin Range(stream.zipDir)
    /\ meta.Directories[i + 1] = ZeroDirectory
    /\ Len(stream.zipDir) >= Len(ExpectedEntries) - 1 - s.DataDirectories + i
    /\ IsPrefix(stream.zipDir, ExpectedEntries)

\* C12: when the capture of directory i fails, Backup() returns an error at once: the
\* manifest is never written, no entry of a directory j > i is created, the database
\* entry and the entries of directories 0..i-1 were created before, and what reached
\* the sink stays there (the sink is only ever appended to).
C12_DirectoryFailureStopsRun ==
    /\ [](/\ \A i \in 0..(MaxDirs - 1) : DirEntry(i) \in failures => DirFailureAt(i)
          /\ retAt = "directories" => DirFailureAt(dirIdx))
    /\ [][IsPrefix(stream.sink, stream.sink')]_vars

C12_Witness ==
    /\ Returned /\ DirEntry(0) \in failures /\ s.DataDirectories = 2
    /\ SinkHeaders = <<DatabaseEntry, DirEntry(0)>>

\* C13: when the database dump fails, Backup() returns the error at once: no directory
\* entry and no manifest entry is created afterwards and database_backup is never set.
C13_DumpFailureStopsRun ==
    (DatabaseEntry \in failures \/ retAt = "database") =>
        /\ ret = "err" /\ retAt = "database" /\ Returning
        /\ Range(stream.zipDir) \subseteq {DatabaseEntry}
        /\ meta = EmptyMeta
        /\ ~manifest.written

C13_Witness ==
    /\ Returned /\ DatabaseEntry \in failures /\ s.DataDirectories = 2
    /\ DatabaseEntry \in ArchiveEntries /\ ArchiveHasDirectory

\* C14: the entries of one archive are created in strict order: the database entry (if
\* any), the directory entries in configuration order, the manifest entry; the sink
\* receives their headers in the same order.
C14_EntryOrder ==
    /\ IsPrefix(stream.zipDir, ExpectedEntries)
    /\ IsPrefix(SinkHeaders, stream.zipDir)

C14_Witness ==
    /\ Returned /\ ret = "ok"
    /\ SinkHeaders = <<DatabaseEntry, DirEntry(0), DirEntry(1), ManifestEntry>>

\* C15: with database backup disabled and no directories configured, Backup() returns
\* success without opening a sink: no file, no remote object, no background task.
C15_NothingEnabledOpensNothing ==
    (~s.Database /\ s.DataDirectories = 0) =>
        /\ fileState = "none" /\ upload = "none" /\ ageState = "none"
        /\ stream = EmptyStream /\ defers = <<>> /\ closeLog = <<>>
        /\ pc \in {"idle", "defers", "returned"}
        /\ pc # "idle" => (ret = "ok" /\ retAt = "disabled")

C15_Witness ==
    /\ Returned /\ ~s.Database /\ s.DataDirectories = 0 /\ s.RClone /\ s.recipients
    /\ ret = "ok" /\ fileState = "none"

\* C16: Init() is idempotent: a second run against a database that a first run has
\* initialised returns no error, for every configuration, also one with PG extensions.
C16_InitIdempotent ==
    (Len(initLog) >= 2 /\ initLog[1] = "ok") => initLog[2] = "ok"

\* a run that returned success with the database and no directory to back up
DatabaseOnlySuccess ==
    Returned /\ ret = "ok" /\ DatabaseProcessed /\ s.DataDirectories = 0

C18_DirectoriesManifest ==
    (Returned /\ ret = "ok" /\ ~s.Database /\ s.DataDirectories > 0) =>
        LET n == s.DataDirectories
            dirs == manifest.meta.Directories
        IN  /\ manifest.written
            /\ Len(dirs) = n
            /\ \A i \in 0..(n - 1) :
                 /\ dirs[i + 1] = [DirectoryPath |-> i, Filename |-> DirNames[i + 1]]
                 /\ stream.zipDir[i + 1] = dirs[i + 1].Filename
            /\ \A i, j \in 1..n : dirs[i].Filename = dirs[j].Filename => i = j
            /\ Len(stream.zipDir) = n + 1
            /\ DatabaseEntry \notin Range(stream.zipDir)
            /\ manifest.meta.DatabaseBackup = ""
            /\ ArchiveHasDirectory => SinkHeaders = stream.zipDir

C18_Witness ==
    /\ Returned /\ ret = "ok" /\ ~s.Database /\ s.DataDirectories = 2
    /\ ArchiveComplete
    /\ SinkHeaders = <<DirEntry(0), DirEntry(1), ManifestEntry>>
    /\ manifest.meta.Directories[2].Filename = DirEntry(1)

\* the container writer was set up in this run
ContainerOpened == "zipClose" \in Range(defers) \cup Range(closeLog)

\* C19: the archive name ends in `.zip.age` iff an encryption recipient is configured
\* and in `.zip` otherwise, and the encryption stage wraps the sink exactly in the runs
\* whose name carries the `.age` suffix.
C19_SuffixIffEncrypted ==
    (pc # "idle" /\ IsBackupEnabled) =>
        /\ filename.suffix = (IF s.recipients THEN ".zip.age" ELSE ".zip")
        /\ ageState # "none" => filename.suffix = ".zip.age"
        /\ ContainerOpened => (ageState # "none" <=> filename.suffix = ".zip.age")
        /\ stream.sink # <<>> =>
             (stream.sink[1] = <<"age", "hdr">> <=> filename.suffix = ".zip.age")

C19_Witness ==
    /\ Returned /\ ret = "ok" /\ filename.suffix = ".zip.age"
    /\ stream.sink[1] = <<"age", "hdr">> /\ stream.sink[Len(stream.sink)] = <<"age", "final">>

\* the runs of cron c, as indices into runs, and the last of them
RunsOf(c) == { i \in DOMAIN runs : runs[i].cron = c }
LastRun(c) == Max(RunsOf(c))

\* C20: a scheduled run that returns an error does not stop the scheduler: the entry
\* stays registered, the next run starts at the next scheduled time whatever the runs
\* before it returned, and no run is started in between.
C20_FailedRunKeepsSchedule ==
    \A c \in DOMAIN crons :
      /\ crons[c].hasEntry = (IsBackupEnabled /\ schedule = "valid")
      /\ \A i, j \in RunsOf(c) :
           (i < j /\ ~\E k \in RunsOf(c) : i < k /\ k < j) =>
               runs[j].at = runs[i].at + Interval
      /\ (crons[c].running /\ crons[c].hasEntry) =>
           /\ now <= crons[c].next
           /\ RunsOf(c) # {} => crons[c].next = runs[LastRun(c)].at + Interval

C20_Witness ==
    \E i, j \in DOMAIN runs :
      /\ j = i + 1 /\ runs[i].cron = runs[j].cron
      /\ runs[i].state = "done" /\ runs[i].err /\ runs[i].end < runs[j].at
      /\ runs[j].at = runs[i].at + Interval

\* C21: StartSchedule on a service with no backup enabled, or with an empty schedule
\* string, returns success, registers no entry, and no run is ever started.
C21_DisabledStartsNothing ==
    (~IsBackupEnabled \/ schedule = "") =>
        /\ mainPc # "fatal"
        /\ \A c \in DOMAIN crons : ~crons[c].hasEntry
        /\ runs = <<>>

C21_Witness ==
    /\ IsBackupEnabled /\ schedule = "" /\ mainPc = "waitSignal"
    /\ crons # <<>> /\ crons[1].running /\ now > crons[1].next
    /\ runs = <<>>

\* how often the deferred close f was invoked
CloseCount(f) == Cardinality({ i \in DOMAIN closeLog : closeLog[i] = f })

\* C25: every layer Backup() opened is closed exactly once before Backup() returns, on
\* every return path; when the set-up of the encryption stage fails after the sink was
\* opened, the sink's close function still runs and, in remote mode, has waited for the
\* upload task before the error is returned.
C25_OpenedLayersClosedOnce ==
    /\ \A f \in Range(AllCloses) : CloseCount(f) <= 1
    /\ Returned =>
         /\ fileState # "open" /\ ageState # "open" /\ defers = <<>>
         /\ CloseCount("fileClose") = (IF fileState = "closed" THEN 1 ELSE 0)
         /\ ageState = "closed" => CloseCount("encryptClose") = 1
         /\ upload # "running"
         /\ retAt \notin {"none", "disabled", "createFile"} => fileState = "closed"
         /\ retAt = "encryptFile" =>
              (ret = "err" /\ closeLog = <<"fileClose">> /\ (Remote => upload = "finished"))
         /\ retAt \notin {"none", "disabled", "createFile", "encryptFile"} =>
              closeLog = AllCloses

C25_Witness ==
    /\ Returned /\ ret = "err" /\ retAt = "encryptFile"
    /\ Remote /\ upload = "finished" /\ fileState = "closed"
    /\ closeLog = <<"fileClose">>

\* C26: in remote mode, once the put has failed and the task has closed the read end
\* with that error, every later write into the pipe fails, so a run that still had
\* bytes to write (one of its writes met the closed pipe) returns an error.
C26_WriteAfterFailedPutFailsRun ==
    (Returned /\ Remote /\ putErr /\ stream.zipErr) => ret = "err"

RunName(i) == [stamp |-> runs[i].at, suffix |-> ArchiveSuffix]

\* C29: two distinct runs that each produce an archive never write to the same name.
C29_RunsNeverShareName ==
    \A i, j \in DOMAIN runs : i # j => RunName(i) # RunName(j)

\* C27: in remote mode Backup() always terminates, provided the put itself returns:
\* whatever the interleaving of its writes with the put succeeding, failing midway or
\* returning early, no pipe write and no wait in the close function blocks forever.
C27_RemoteBackupTerminates ==
    /\ (pc = "wgWait") ~> (pc # "wgWait")
    /\ <>Returned

C27_Witness ==
    /\ Returned /\ Remote /\ putErr /\ ret = "err"
    /\ retAt = "directories" /\ stream.zipErr /\ upload = "finished"
    /\ closeLog = AllCloses

\* the steps Prepare() has to finish before the flag may be set
PrepareSteps == (IF hk.db THEN {"wait", "init"} ELSE {}) \cup {"prepare"}

\* C22: the probe answers ready only when the connection wait, Init() and the backup
\* preparation have all succeeded; every probe before that is not answered ready, also
\* while the server answers requests; the flag, once set, is never cleared, and a
\* served probe after a ready one is ready again
C22_ReadyOnlyAfterPrepare ==
    /\ [](hk.running => (PrepareSteps \subseteq hk.done /\ hk.ret = "ok"))
    /\ [](hk.probe = "ready" => (hk.running /\ PrepareSteps \subseteq hk.done))
    /\ []((hk.server = "serving" /\ ~(PrepareSteps \subseteq hk.done)) => Healthcheck = "notReady")
    /\ [][hk.running => hk'.running]_vars
    /\ [][(hk.probe = "ready" /\ hk'.server = "serving") => hk'.probe = "ready"]_vars

\* the probe answered ready after a wait, an Init() that ran its statements and a
\* backup preparation
C22_Witness ==
    /\ hk.db
    /\ hk.probe = "ready"
    /\ hk.done = {"wait", "init", "prepare"}
    /\ dbConf.RootPassword
    /\ initLog = <<"ok">>

\* a probe was answered not ready by a serving process that had finished the wait and Init()
C22_WitnessNotReady ==
    /\ hk.probe = "notReady"
    /\ hk.server = "serving"
    /\ hk.pc = "backup"
    /\ hk.done = {"wait", "init"}

\* the calls main() has made that touch the database or the file system
WorkDone == Range(proc.work)

\* C23: a process started with an unknown action has done no work (statement of the
\* claim; main() reaches the switch only after the wait, Init() and Prepare())
C23_UnknownActionDoesNoWork ==
    proc.action = "other" => proc.work = <<>>

\* C23: a process started with an unknown action never starts a backup or a schedule,
\* and ends in log.Fatal when it reaches the switch
C23_UnknownActionNeverBacksUp ==
    proc.action = "other" =>
        /\ "backup" \notin WorkDone
        /\ crons = <<>>
        /\ mainPc \notin {"start", "waitSignal", "stopping", "exit", "backup"}

\* C24: with the backup argument Backup() is called at most once and the schedule is
\* never started; the process returns only after that one Backup() returned nil, and ends
\* in log.Fatal when it returned an error
C24_ManualBackupOnce ==
    proc.action = "backup" =>
        /\ crons = <<>> /\ svcCron = 0 /\ runs = <<>>
        /\ mainPc \notin {"start", "waitSignal", "stopping"}
        /\ Cardinality({ i \in DOMAIN proc.work : proc.work[i] = "backup" }) <= 1
        /\ proc.backupRet # "none" <=> "backup" \in WorkDone
        /\ proc.backupRet = "running" => mainPc = "backup"
        /\ mainPc = "exit" => proc.backupRet = "ok"
        /\ proc.backupRet = "ok" => mainPc = "exit"
        /\ proc.backupRet = "err" => mainPc = "fatal"

\* the manual backup failed and the process ended in log.Fatal, after the database was
\* waited for and initialised
C24_Witness ==
    /\ proc.action = "backup"
    /\ proc.work = <<"wait", "init", "prepare", "backup">>
    /\ proc.backupRet = "err"
    /\ mainPc = "fatal"
    /\ now > Interval

\* the manual backup succeeded and the process returned
C24_WitnessOk ==
    /\ proc.action = "backup"
    /\ proc.backupRet = "ok"
    /\ mainPc = "exit"
    /\ IsBackupEnabled /\ schedule = "valid"
    /\ now > Interval

====
